---- MODULE Spec2Model ----
(***************************************************************************)
(* Evaluation harness of the marketing-content agent:                      *)
(*   eval/evaluation_utils.py     the scoring library                      *)
(*   eval/test_recommendations.py the evaluation driver                    *)
(*                                    (test_full_evaluation_suite)         *)
(*                                                                         *)
(* Texts are sequences of Unicode code points, so that split(), lower(),   *)
(* the substring test and re.search are computed on characters.  Scores    *)
(* are exact rationals <<numerator, denominator>> in lowest terms; the     *)
(* rounding of IEEE doubles inside one sum is not modelled.  The TF-IDF    *)
(* cosine of scikit-learn is a library result and is drawn from the set    *)
(* CosineValues.                                                           *)
(***************************************************************************)
EXTENDS Integers, Sequences, FiniteSets, TLC

\* ------------------------------------------------------------------ bounds
\* longest dataset of a run
MaxScenarios == 2

\* --------------------------------------------------------------- rationals
RECURSIVE GCD(_, _)
GCD(a, b) == IF b = 0 THEN a ELSE GCD(b, a % b)

Rat(n, d) == LET g == GCD(n, d) IN IF n = 0 THEN <<0, 1>> ELSE <<n \div g, d \div g>>
RAdd(x, y) == Rat(x[1] * y[2] + y[1] * x[2], x[2] * y[2])
RMul(x, y) == Rat(x[1] * y[1], x[2] * y[2])
RLe(x, y) == x[1] * y[2] <= y[1] * x[2]
RLt(x, y) == x[1] * y[2] < y[1] * x[2]
Zero == <<0, 1>>
One == <<1, 1>>

RECURSIVE RSum(_)
RSum(s) == IF s = <<>> THEN Zero ELSE RAdd(s[1], RSum(Tail(s)))

\* round(x, 3): the nearest multiple of 1/1000.  An exact tie is decided by
\* the binary representation of the double, which lies on either side of
\* it, so both neighbours are possible results.
round3(x) ==
  LET lo == (x[1] * 1000) \div x[2]
      rem2 == 2 * ((x[1] * 1000) % x[2])
  IN  IF rem2 < x[2] THEN {Rat(lo, 1000)}
      ELSE IF rem2 > x[2] THEN {Rat(lo + 1, 1000)}
      ELSE {Rat(lo, 1000), Rat(lo + 1, 1000)}

\* ------------------------------------------------------------------- texts
Lower(c) == IF c \in 65..90 THEN c + 32 ELSE c
LowerText(t) == [i \in 1..Len(t) |-> Lower(t[i])]
IsSpace(c) == c \in {9, 10, 11, 12, 13, 32}
IsWordChar(c) == c \in (48..57) \cup (65..90) \cup (97..122) \cup {95}
IsEmoji(c) == c \in (127744..129535) \cup (128512..128591)

\* len(post.split())
WordCount(t) ==
  Cardinality({i \in 1..Len(t) : ~IsSpace(t[i]) /\ (i = 1 \/ IsSpace(t[i - 1]))})

\* needle in hay
Contains(hay, needle) ==
  \E i \in 0..(Len(hay) - Len(needle)) :
     \A j \in 1..Len(needle) : hay[i + j] = needle[j]

\* the alternatives of a pattern, split at every '|'
Alternatives(p) ==
  LET cuts == {0, Len(p) + 1} \cup {i \in 1..Len(p) : p[i] = 124}
  IN  {SubSeq(p, ab[1] + 1, ab[2] - 1) :
         ab \in {x \in cuts \X cuts :
                   x[1] < x[2] /\ \A c \in cuts : ~(x[1] < c /\ c < x[2])}}

\* ---------------------------------------------- the texts of the model
\* "gift"
kw_gift ==
  <<103, 105, 102, 116>>
\* "Singapore"
kw_Singapore ==
  <<83, 105, 110, 103, 97, 112, 111, 114, 101>>
\* "perfume"
kw_perfume ==
  <<112, 101, 114, 102, 117, 109, 101>>
\* "20-40"
pat_age ==
  <<50, 48, 45, 52, 48>>
\* "women"
pat_women ==
  <<119, 111, 109, 101, 110>>
\* "Singapore"
pat_Singapore ==
  <<83, 105, 110, 103, 97, 112, 111, 114, 101>>
\* "US"
pat_US ==
  <<85, 83>>
\* "Singapore|US"
pat_default_market ==
  <<83, 105, 110, 103, 97, 112, 111, 114, 101, 124, 85, 83>>
\* "floral"
pat_floral ==
  <<102, 108, 111, 114, 97, 108>>
\* "gift set"
pat_gift_set ==
  <<103, 105, 102, 116, 32, 115, 101, 116>>
\* "Christmas"
pat_Christmas ==
  <<67, 104, 114, 105, 115, 116, 109, 97, 115>>
\* "12.12"
pat_1212 ==
  <<49, 50, 46, 49, 50>>
\* "New Year"
pat_New_Year ==
  <<78, 101, 119, 32, 89, 101, 97, 114>>
\* "I want to create sales and promotion event from November to December, target customer group is 20-40 years old women in Singapore"
input_1 ==
  <<73, 32, 119, 97, 110, 116, 32, 116, 111, 32, 99, 114, 101, 97, 116,
  101, 32, 115, 97, 108, 101, 115, 32, 97, 110, 100, 32, 112, 114, 111,
  109, 111, 116, 105, 111, 110, 32, 101, 118, 101, 110, 116, 32, 102,
  114, 111, 109, 32, 78, 111, 118, 101, 109, 98, 101, 114, 32, 116, 111,
  32, 68, 101, 99, 101, 109, 98, 101, 114, 44, 32, 116, 97, 114, 103,
  101, 116, 32, 99, 117, 115, 116, 111, 109, 101, 114, 32, 103, 114,
  111, 117, 112, 32, 105, 115, 32, 50, 48, 45, 52, 48, 32, 121, 101, 97,
  114, 115, 32, 111, 108, 100, 32, 119, 111, 109, 101, 110, 32, 105,
  110, 32, 83, 105, 110, 103, 97, 112, 111, 114, 101>>
\* "Perfume promotion for Christmas and New Year, women 25-35 in US"
input_2 ==
  <<80, 101, 114, 102, 117, 109, 101, 32, 112, 114, 111, 109, 111, 116,
  105, 111, 110, 32, 102, 111, 114, 32, 67, 104, 114, 105, 115, 116,
  109, 97, 115, 32, 97, 110, 100, 32, 78, 101, 119, 32, 89, 101, 97,
  114, 44, 32, 119, 111, 109, 101, 110, 32, 50, 53, 45, 51, 53, 32, 105,
  110, 32, 85, 83>>
\* "Holiday sale"
input_3 ==
  <<72, 111, 108, 105, 100, 97, 121, 32, 115, 97, 108, 101>>
\* "Gift set for women 20-40 in Singapore #Sale 🎁 floral Christmas 12/12"
text_short ==
  <<71, 105, 102, 116, 32, 115, 101, 116, 32, 102, 111, 114, 32, 119,
  111, 109, 101, 110, 32, 50, 48, 45, 52, 48, 32, 105, 110, 32, 83, 105,
  110, 103, 97, 112, 111, 114, 101, 32, 35, 83, 97, 108, 101, 32,
  127873, 32, 102, 108, 111, 114, 97, 108, 32, 67, 104, 114, 105, 115,
  116, 109, 97, 115, 32, 49, 50, 47, 49, 50>>
\* "Christmas perfume 12/12"
text_plain ==
  <<67, 104, 114, 105, 115, 116, 109, 97, 115, 32, 112, 101, 114, 102,
  117, 109, 101, 32, 49, 50, 47, 49, 50>>
\* "a"
word_a ==
  <<97>>

\* re.search(pattern, text, re.IGNORECASE) for patterns made of literal
\* characters, '.' and '|'
CharMatch(pc, c) == IF pc = 46 THEN c # 10 ELSE Lower(pc) = Lower(c)
re_search(pattern, text) ==
  \E alt \in Alternatives(pattern) :
     \E i \in 0..(Len(text) - Len(alt)) :
        \A j \in 1..Len(alt) : CharMatch(alt[j], text[i + j])

\* " ".join(parts)
RECURSIVE Join(_)
Join(parts) ==
  IF parts = <<>> THEN <<>>
  ELSE IF Len(parts) = 1 THEN parts[1]
  ELSE parts[1] \o <<32>> \o Join(Tail(parts))

\* text followed by n further words "a"
Pad(text, n) == text \o [i \in 1..(2 * n) |-> IF i % 2 = 1 THEN 32 ELSE word_a[1]]

\* expected.get(key, default)
Get(expected, key, default) ==
  IF key \in DOMAIN expected THEN expected[key] ELSE default

Max(a, b) == IF a >= b THEN a ELSE b

\* ------------------------------------------------------ the scoring library
regex_match_score(text, patterns) ==
  LET score == Cardinality({i \in 1..Len(patterns) : re_search(patterns[i], text)})
      n == Max(Len(patterns), 1)
  IN  Rat(score, n)

has_hashtag(post) ==
  \E i \in 1..(Len(post) - 1) : post[i] = 35 /\ IsWordChar(post[i + 1])
has_emoji(post) == \E i \in 1..Len(post) : IsEmoji(post[i])
\* the length check without its lower limit
length_ok_upper_only(post) == WordCount(post) <= 280

length_ok(post) == 50 <= WordCount(post) /\ WordCount(post) <= 280

Ind(b) == IF b THEN One ELSE Zero

evaluate_social_post(post, expected_keywords) ==
  IF Len(expected_keywords) = 0
  THEN [raised |-> "ZeroDivisionError"]
  ELSE LET hits == Cardinality({i \in 1..Len(expected_keywords) :
                      Contains(LowerText(post), LowerText(expected_keywords[i]))})
           keyword_score == Rat(hits, Len(expected_keywords))
           quality ==
             RAdd(RAdd(RAdd(RMul(<<3, 10>>, keyword_score),
                            RMul(<<3, 10>>, Ind(length_ok(post)))),
                       RMul(<<2, 10>>, Ind(has_hashtag(post)))),
                  RMul(<<2, 10>>, Ind(has_emoji(post))))
       IN  [raised |-> "none", quality |-> quality,
            keyword_coverage |-> keyword_score]

\* the position of the last largest value
RECURSIVE idxmax_last(_, _)
idxmax_last(v, n) ==
  IF n = 1 THEN 1
  ELSE LET b == idxmax_last(v, n - 1) IN IF RLe(v[b], v[n]) THEN n ELSE b

\* position of the first largest / smallest value (Series.idxmax / idxmin)
RECURSIVE idxmax(_, _)
idxmax(v, n) ==
  IF n = 1 THEN 1
  ELSE LET b == idxmax(v, n - 1) IN IF RLt(v[b], v[n]) THEN n ELSE b
RECURSIVE idxmin(_, _)
idxmin(v, n) ==
  IF n = 1 THEN 1
  ELSE LET b == idxmin(v, n - 1) IN IF RLt(v[n], v[b]) THEN n ELSE b

\* An empty list gives a DataFrame without columns, and df["passed"]
\* raises KeyError before the "N/A" alternatives of lines 95-96 are reached.
compute_overall_score(rs) ==
  IF rs = <<>>
  THEN [raised |-> "KeyError"]
  ELSE LET n == Len(rs)
           overall == [i \in 1..n |-> rs[i].overall_score]
           npass == Cardinality({i \in 1..n : rs[i].passed})
       IN  [raised |-> "none",
            total_scenarios |-> n,
            pass_rate |-> Rat(npass, n),
            avg_overall_score |-> RMul(RSum(overall), <<1, n>>),
            best_scenario |-> rs[idxmax(overall, n)].scenario,
            worst_scenario |-> rs[idxmin(overall, n)].scenario]

\* ------------------------------------------------------------------ inputs
\* golden scenarios: the two fallback scenarios of load_evaluation_dataset
\* (keys the driver never reads left out, lists shortened) and a scenario
\* of a dataset file that gives only a market
Scenario1 ==
  [id |-> 1, user_input |-> input_1,
   expected |-> [age_group |-> pat_age, gender |-> pat_women,
                 market |-> pat_Singapore,
                 trends |-> <<pat_floral, pat_gift_set>>,
                 events |-> <<pat_Christmas, pat_1212>>,
                 required_keywords |-> <<kw_gift, kw_Singapore>>]]
Scenario2 ==
  [id |-> 2, user_input |-> input_2,
   expected |-> [events |-> <<pat_Christmas, pat_New_Year>>,
                 required_keywords |-> <<kw_perfume, kw_gift>>]]
Scenario3 ==
  [id |-> 3, user_input |-> input_3,
   expected |-> [market |-> pat_US]]
Scenarios == {Scenario1, Scenario2, Scenario3}

\* the datasets of the model: up to MaxScenarios different scenarios
Datasets ==
  UNION {{d \in [1..n -> Scenarios] :
            \A i, j \in 1..n : i # j => d[i].id # d[j].id} : n \in 0..MaxScenarios}

\* the posts the agent may write
Post49 == Pad(text_short, 37)
Post50 == Pad(text_short, 38)
Post280 == Pad(text_short, 268)
Post281 == Pad(text_short, 269)
Posts == {<<>>, text_short, text_plain, Post49, Post50, Post280, Post281}

\* the values of the social_posts mapping, in insertion order: no post,
\* one post, or posts of several platforms
SocialPosts ==
  {<<>>} \cup {<<p>> : p \in Posts}
         \cup {<<text_short, Post50>>, <<Post50, text_plain, <<>> >>}

\* results of cosine_text_similarity (0.0 is also its except branch)
CosineValues == {Zero, <<373, 1250>>, One}

\* asyncio.wait_for(agent.run(user_input), timeout=60) raising: an
\* exception of the agent, or asyncio.TimeoutError after 60 time units
Failures == {"Exception", "TimeoutError"}

\* ------------------------------------------------------------------- state
VARIABLES
  dataset,      \* load_evaluation_dataset()
  pc,           \* position of test_full_evaluation_suite
  idx,          \* position in dataset of the current item (1-based)
  invocations,  \* calls of agent.run made for each dataset position
  outcome,      \* how the last awaited call ended: "ok" or a failure ("none"
                \* before the first call and while a call is pending)
  social_posts, \* output["social_posts"].values() of a successful call
  locals,       \* <<>> or <<r>>: the scores computed for the last item
  results,      \* the list results
  summary,      \* <<>> or <<s>>: the value of compute_overall_score
  eval_results, \* <<>> or <<content>>: what the run wrote to eval_results.json
  raised        \* the exception that left the test function, or "none"

vars == <<dataset, pc, idx, invocations, outcome, social_posts, locals,
          results, summary, eval_results, raised>>

Label(user_input) == SubSeq(user_input, 1, IF Len(user_input) < 50 THEN Len(user_input) ELSE 50)

FailedResult(user_input) ==
  [scenario |-> Label(user_input),
   relevance_score |-> Zero, personalization_score |-> Zero,
   trend_alignment |-> Zero, event_coverage |-> Zero,
   post_quality_avg |-> Zero, overall_score |-> Zero, passed |-> FALSE]

Init ==
  /\ dataset \in Datasets
  /\ pc = "loop"
  /\ idx = 1
  /\ invocations = [i \in 1..Len(dataset) |-> 0]
  /\ outcome = "none"
  /\ social_posts = <<>>
  /\ locals = <<>>
  /\ results = <<>>
  /\ summary = <<>>
  /\ eval_results = <<>>
  /\ raised = "none"

\* lines 27-35: the next item is taken and agent.run is awaited
InvokeAgent ==
  /\ pc = "loop"
  /\ idx <= Len(dataset)
  /\ pc' = "await"
  /\ invocations' = [invocations EXCEPT ![idx] = @ + 1]
  /\ outcome' = "none"
  /\ UNCHANGED <<dataset, idx, social_posts, locals, results, summary,
                 eval_results, raised>>

\* the awaited call returns an output
AgentReturns ==
  /\ pc = "await"
  /\ outcome = "none"
  /\ \E sp \in SocialPosts : social_posts' = sp
  /\ outcome' = "ok"
  /\ UNCHANGED <<dataset, pc, idx, invocations, locals, results, summary,
                 eval_results, raised>>

\* the awaited call raises
AgentRaises ==
  /\ pc = "await"
  /\ outcome = "none"
  /\ outcome' = "Exception"
  /\ UNCHANGED <<dataset, pc, idx, invocations, social_posts, locals, results,
                 summary, eval_results, raised>>

\* the awaited call is cancelled after the 60 time units
AgentTimesOut ==
  /\ pc = "await"
  /\ outcome = "none"
  /\ outcome' = "TimeoutError"
  /\ UNCHANGED <<dataset, pc, idx, invocations, social_posts, locals, results,
                 summary, eval_results, raised>>

\* an except clause that catches asyncio.TimeoutError alone: any other
\* exception of the agent leaves the test function
HandleFailure_TimeoutOnly ==
  /\ pc = "await"
  /\ outcome \in Failures
  /\ IF outcome = "TimeoutError"
     THEN /\ results' = Append(results, FailedResult(dataset[idx].user_input))
          /\ idx' = idx + 1
          /\ pc' = "loop"
          /\ UNCHANGED raised
     ELSE /\ raised' = outcome
          /\ pc' = "done"
          /\ UNCHANGED <<results, idx>>
  /\ UNCHANGED <<dataset, invocations, outcome, social_posts, locals, summary,
                 eval_results>>

\* lines 36-44: the except branch
HandleFailure ==
  /\ pc = "await"
  /\ outcome \in Failures
  /\ results' = Append(results, FailedResult(dataset[idx].user_input))
  /\ idx' = idx + 1
  /\ pc' = "loop"
  /\ UNCHANGED <<dataset, invocations, outcome, social_posts, locals, summary,
                 eval_results, raised>>

\* lines 71-77
overall_score(relevance, personalization, trend_align, event_cov, post_quality_avg) ==
  RAdd(RAdd(RAdd(RAdd(RMul(<<25, 100>>, relevance),
                      RMul(<<20, 100>>, personalization)),
                 RMul(<<15, 100>>, trend_align)),
            RMul(<<15, 100>>, event_cov)),
       RMul(<<25, 100>>, post_quality_avg))

\* a strict threshold: overall > 0.75
passed_strict(overall) == RLt(<<75, 100>>, overall)

\* line 79
passed_of(overall) == RLe(<<75, 100>>, overall)

\* lines 57-61
personalization_of(all_posts, expected) ==
  regex_match_score(all_posts,
                    <<Get(expected, "age_group", <<>>),
                      Get(expected, "gender", <<>>),
                      Get(expected, "market", pat_default_market)>>)

\* lines 53-79: the scores of one item, or the exception the scoring raises
Scoring(item, posts, relevance) ==
  LET expected == item.expected
      all_posts == Join(posts)
      personalization == personalization_of(all_posts, expected)
      trend_align == regex_match_score(all_posts, Get(expected, "trends", <<>>))
      event_cov == regex_match_score(all_posts, Get(expected, "events", <<>>))
      evals == [i \in 1..Len(posts) |->
                  evaluate_social_post(posts[i], Get(expected, "required_keywords", <<>>))]
  IN  IF \E i \in 1..Len(posts) : evals[i].raised # "none"
      THEN [raised |-> "ZeroDivisionError"]
      ELSE LET post_qualities == [i \in 1..Len(posts) |-> evals[i].quality]
               post_quality_avg ==
                 IF post_qualities # <<>>
                 THEN RMul(RSum(post_qualities), <<1, Len(post_qualities)>>)
                 ELSE Zero
               overall == overall_score(relevance, personalization, trend_align,
                                        event_cov, post_quality_avg)
           IN  [raised |-> "none",
                relevance |-> relevance,
                personalization |-> personalization,
                trend_align |-> trend_align,
                event_cov |-> event_cov,
                post_qualities |-> post_qualities,
                post_quality_avg |-> post_quality_avg,
                overall |-> overall,
                passed |-> passed_of(overall)]

\* lines 46-94: the output is scored and the result appended; an exception
\* of the scoring leaves the test function
ScoreScenario ==
  /\ pc = "await"
  /\ outcome = "ok"
  /\ \E relevance \in CosineValues :
       \E item \in {dataset[idx]} : \E s \in {Scoring(item, social_posts, relevance)} :
           IF s.raised # "none"
           THEN /\ raised' = s.raised
                /\ pc' = "done"
                /\ UNCHANGED <<idx, locals, results>>
           ELSE /\ \E r1 \in round3(s.relevance), r2 \in round3(s.personalization),
                      r3 \in round3(s.trend_align), r4 \in round3(s.event_cov),
                      r5 \in round3(s.post_quality_avg), r6 \in round3(s.overall) :
                      results' = Append(results,
                        [scenario |-> Label(item.user_input),
                         relevance_score |-> r1, personalization_score |-> r2,
                         trend_alignment |-> r3, event_coverage |-> r4,
                         post_quality_avg |-> r5, overall_score |-> r6,
                         passed |-> s.passed])
                /\ locals' = <<s>>
                /\ idx' = idx + 1
                /\ pc' = "loop"
                /\ UNCHANGED raised
  /\ UNCHANGED <<dataset, invocations, outcome, social_posts, summary,
                 eval_results>>

\* line 97, after the last item
Summarize ==
  /\ pc = "loop"
  /\ idx > Len(dataset)
  /\ LET s == compute_overall_score(results)
     IN  IF s.raised # "none"
         THEN /\ raised' = s.raised
              /\ pc' = "done"
              /\ UNCHANGED summary
         ELSE /\ summary' = <<s>>
              /\ pc' = "dump"
              /\ UNCHANGED raised
  /\ UNCHANGED <<dataset, idx, invocations, outcome, social_posts, locals,
                 results, eval_results>>

\* lines 109-110: json.dump([r.__dict__ for r in results])
DumpResults ==
  /\ pc = "dump"
  /\ eval_results' = <<[i \in 1..Len(results) |-> results[i]]>>
  /\ pc' = "assert"
  /\ UNCHANGED <<dataset, idx, invocations, outcome, social_posts, locals,
                 results, summary, raised>>

\* line 113: assert summary['pass_rate'] >= 0.7
Gate ==
  /\ pc = "assert"
  /\ raised' = IF RLe(<<7, 10>>, summary[1].pass_rate) THEN "none" ELSE "AssertionError"
  /\ pc' = "done"
  /\ UNCHANGED <<dataset, idx, invocations, outcome, social_posts, locals,
                 results, summary, eval_results>>

Next ==
  \/ InvokeAgent
  \/ AgentReturns
  \/ AgentRaises
  \/ AgentTimesOut
  \/ HandleFailure
  \/ ScoreScenario
  \/ Summarize
  \/ DumpResults
  \/ Gate

Spec == Init /\ [][Next]_vars

\* -------------------------------------------------------------- properties
TypeOK ==
  /\ pc \in {"loop", "await", "dump", "assert", "done"}
  /\ idx \in 1..(Len(dataset) + 1)
  /\ Len(results) <= Len(dataset)
  /\ outcome \in {"none", "ok"} \cup Failures
  /\ raised \in {"none", "ZeroDivisionError", "KeyError", "AssertionError"}

\* the last item was scored and its scores are in locals
Scored == pc # "await" /\ outcome = "ok" /\ raised # "ZeroDivisionError"
\* the item the scores in locals belong to
ScoredItem == dataset[idx - 1]

\* "N/A"
text_NA == <<78, 47, 65>>

IsZeroRecord(r) ==
  /\ r.relevance_score = Zero /\ r.personalization_score = Zero
  /\ r.trend_alignment = Zero /\ r.event_coverage = Zero
  /\ r.post_quality_avg = Zero /\ r.overall_score = Zero
  /\ r.passed = FALSE

\* C1: when the awaited agent call has raised or timed out, the driver's
\* next step appends exactly one record, all five scores 0, overall 0 and
\* passed false, computes no scores, and goes on to the next item; no
\* exception leaves the test function.
C1_FailureRecorded ==
  [][(pc = "await" /\ outcome \in Failures) =>
       /\ Len(results') = Len(results) + 1
       /\ SubSeq(results', 1, Len(results)) = results
       /\ IsZeroRecord(results'[Len(results')])
       /\ results'[Len(results')].scenario = Label(dataset[idx].user_input)
       /\ locals' = locals
       /\ idx' = idx + 1
       /\ pc' = "loop"
       /\ raised' = "none"]_vars

\* the first of two items timed out: its record is appended and the loop
\* is at the second item
C1_Witness ==
  /\ Len(dataset) = 2
  /\ outcome = "TimeoutError"
  /\ pc = "loop"
  /\ idx = 2
  /\ Len(results) = 1
  /\ IsZeroRecord(results[1])
  /\ raised = "none"

\* C2: the agent is called once per item, the call for an item starts only
\* when the records of all earlier items are appended, and when the run has
\* ended results holds one record per dataset item, in dataset order.
C2_OneRecordPerScenario ==
  /\ \A i \in 1..Len(dataset) : invocations[i] <= 1
  /\ pc = "await" => (Len(results) = idx - 1 /\ invocations[idx] = 1)
  /\ pc = "done" =>
       /\ Len(results) = Len(dataset)
       /\ \A i \in 1..Len(dataset) :
            /\ invocations[i] = 1
            /\ results[i].scenario = Label(dataset[i].user_input)

\* C3: for every post the agent returned and the item's keyword list (the
\* empty list when the item gives none), evaluate_social_post returns a
\* quality in [0,1] that is 0.3*coverage + 0.3*lengthOk + 0.2*hasHashtag +
\* 0.2*hasEmoji, and a post that covers more keywords does not score lower
\* when the other three checks agree.
C3_QualityFormula ==
  (pc = "await" /\ outcome = "ok") =>
    LET kws == Get(dataset[idx].expected, "required_keywords", <<>>)
        Q(p) == evaluate_social_post(p, kws)
        Checks(p) == <<length_ok(p), has_hashtag(p), has_emoji(p)>>
    IN  /\ \A i \in 1..Len(social_posts) :
             LET p == social_posts[i]
                 e == Q(p)
             IN  /\ e.raised = "none"
                 /\ RLe(Zero, e.quality) /\ RLe(e.quality, One)
                 /\ 10 * e.quality[1] * e.keyword_coverage[2] =
                      e.quality[2] *
                        (3 * e.keyword_coverage[1]
                         + e.keyword_coverage[2] *
                             ((IF length_ok(p) THEN 3 ELSE 0)
                              + (IF has_hashtag(p) THEN 2 ELSE 0)
                              + (IF has_emoji(p) THEN 2 ELSE 0)))
        /\ \A i, j \in 1..Len(social_posts) :
             LET p1 == social_posts[i]
                 p2 == social_posts[j]
             IN
             (Checks(p1) = Checks(p2)
              /\ RLe(Q(p1).keyword_coverage, Q(p2).keyword_coverage))
               => RLe(Q(p1).quality, Q(p2).quality)

\* C4: the overall score of a scored item is 0.25*relevance +
\* 0.20*personalization + 0.15*trend + 0.15*events + 0.25*postQualityAvg,
\* lies in [0,1] when the five scores do, and the item passes, in its
\* record too, exactly when overall >= 0.75.
C4_OverallAndThreshold ==
  Scored =>
    LET s == locals[1]
        In01(x) == RLe(Zero, x) /\ RLe(x, One)
        \* 100 * (the weighted sum), from the numerators over one denominator
        den == s.relevance[2] * s.personalization[2] * s.trend_align[2]
                 * s.event_cov[2] * s.post_quality_avg[2]
        num == 25 * s.relevance[1] * (den \div s.relevance[2])
               + 20 * s.personalization[1] * (den \div s.personalization[2])
               + 15 * s.trend_align[1] * (den \div s.trend_align[2])
               + 15 * s.event_cov[1] * (den \div s.event_cov[2])
               + 25 * s.post_quality_avg[1] * (den \div s.post_quality_avg[2])
    IN  /\ s.overall = Rat(num, 100 * den)
        /\ (In01(s.relevance) /\ In01(s.personalization) /\ In01(s.trend_align)
            /\ In01(s.event_cov) /\ In01(s.post_quality_avg)) => In01(s.overall)
        /\ s.passed <=> (4 * s.overall[1] >= 3 * s.overall[2])
        /\ pc = "loop" => results[Len(results)].passed = s.passed

\* an item whose overall score is exactly 0.75 has passed
C4_Witness ==
  /\ Scored
  /\ pc = "loop"
  /\ locals[1].overall = <<3, 4>>
  /\ locals[1].passed
  /\ results[Len(results)].passed

\* C5: for a non-empty list the summary has total_scenarios = N, pass_rate =
\* (records with passed)/N, and best_scenario / worst_scenario are the labels
\* of the first record with the largest / smallest overall_score.
C5_Summary ==
  summary # <<>> =>
    LET s == summary[1]
        n == Len(results)
        First(j, Better(_, _)) ==
          /\ \A k \in 1..n : ~Better(results[k].overall_score, results[j].overall_score)
          /\ \A k \in 1..(j - 1) :
               Better(results[j].overall_score, results[k].overall_score)
    IN  /\ n > 0
        /\ s.total_scenarios = n
        /\ s.pass_rate[1] * n =
             s.pass_rate[2] * Cardinality({i \in 1..n : results[i].passed})
        /\ \E j \in 1..n : First(j, LAMBDA x, y : RLt(y, x))
                           /\ s.best_scenario = results[j].scenario
        /\ \E j \in 1..n : First(j, LAMBDA x, y : RLt(x, y))
                           /\ s.worst_scenario = results[j].scenario

\* two records with different labels tie for the largest overall score and
\* the summary names the first
C5_Witness ==
  /\ summary # <<>>
  /\ Len(results) = 2
  /\ results[1].overall_score = results[2].overall_score
  /\ results[1].scenario # results[2].scenario
  /\ summary[1].best_scenario = results[1].scenario

\* C6: for an empty result list compute_overall_score does not raise; it
\* returns a summary with total_scenarios 0 and best_scenario and
\* worst_scenario "N/A".
C6_EmptySummary ==
  (pc \in {"dump", "assert", "done"} /\ idx > Len(dataset) /\ results = <<>>) =>
    /\ raised # "KeyError"
    /\ summary # <<>>
    /\ summary[1].total_scenarios = 0
    /\ summary[1].best_scenario = text_NA
    /\ summary[1].worst_scenario = text_NA

\* C7 as claimed: the quality returned for a post of fewer than 50 words is
\* strictly below 0.7.
C7_StrictlyBelow ==
  Scored =>
    \A i \in 1..Len(social_posts) :
       WordCount(social_posts[i]) < 50 => RLt(locals[1].post_qualities[i], <<7, 10>>)

\* C7 as amended: the quality returned for a post of fewer than 50 words is
\* at most 0.7, and it is 0.7 when every keyword, a hashtag and an emoji are
\* in the post.
C7_AtMost ==
  Scored =>
    \A i \in 1..Len(social_posts) :
       LET p == social_posts[i]
           kws == ScoredItem.expected.required_keywords
       IN  WordCount(p) < 50 =>
             /\ RLe(locals[1].post_qualities[i], <<7, 10>>)
             /\ (has_hashtag(p) /\ has_emoji(p)
                 /\ \A k \in 1..Len(kws) : Contains(LowerText(p), LowerText(kws[k])))
                  => locals[1].post_qualities[i] = <<7, 10>>

\* a post of 12 words with every keyword, a hashtag and an emoji scored 0.7
C7_Witness ==
  /\ Scored
  /\ \E i \in 1..Len(social_posts) :
       /\ WordCount(social_posts[i]) = 12
       /\ locals[1].post_qualities[i] = <<7, 10>>

\* C8: a run that has ended has written the file, one object per record;
\* the file is written before the gate is evaluated; the run fails exactly
\* when the pass rate is below 0.70.
C8_FileBeforeGate ==
  /\ pc = "assert" => eval_results = <<results>>
  /\ pc = "done" =>
       /\ eval_results = <<results>>
       /\ summary # <<>>
       /\ raised # "none" <=> RLt(summary[1].pass_rate, <<7, 10>>)

\* C9: every record has passed = TRUE exactly when its stored, rounded
\* overall_score is >= 0.75.
C9_RecordConsistent ==
  \A i \in 1..Len(results) :
     results[i].passed <=> RLe(<<3, 4>>, results[i].overall_score)

\* C10: for a scored item whose criteria give neither age_group nor gender,
\* personalization is 0 when the posts do not match the market pattern.
C10_OnlySpecifiedCriteria ==
  (Scored /\ pc = "loop") =>
    LET expected == ScoredItem.expected
    IN  ("age_group" \notin DOMAIN expected /\ "gender" \notin DOMAIN expected
         /\ ~re_search(Get(expected, "market", pat_default_market), Join(social_posts)))
          => locals[1].personalization = Zero
====
